---- MODULE Spec2Model ----
(***************************************************************************)
(* A model of package mg (src/mg/db.go): the KVStore family (KVStores,     *)
(* KVMap with its lazy boxes), the codec registry with NewAgent, and the   *)
(* Agent's run loop, its sends and its shutdown.                           *)
(*                                                                         *)
(* Values are integers: Nil is Go's nil, Vals are the present values, a    *)
(* *kvRef (lazy box) with identity b is BoxBase + b, and Missing marks a   *)
(* key that is not in the Go map.                                          *)
(***************************************************************************)
EXTENDS Integers, Sequences, FiniteSets, TLC

\* ---- bounds -------------------------------------------------------------
MaxOps == 3          \* operations called on the stores in one behaviour
MaxBox == 2          \* kvRef objects allocated in one behaviour
MaxInput == 2        \* requests on the input stream before it ends
MaxPush == 2         \* pushes the state machine makes from background tasks
MsgLen == 2          \* chunks the encoder writes for one message
MaxLoopPush == 1     \* pushes made while the decode loop is under test

Procs == {1, 2, 3}   \* goroutines calling into the stores
NilProcs == {1, 2}    \* the slots the specification of the nil stores uses
StoreProcs == {1}     \* the KVStores specification makes its calls one after another
Keys == {1, 2}
Vals == {1, 2}        \* the present values (Put is called with these: the
                      \* interface says to use Del instead of storing nil)

\* ---- values -------------------------------------------------------------
Nil == 0
Missing == -1
BoxBase == 100
None == 0            \* "no goroutine": the holder of an unlocked mutex

Box(b) == BoxBase + b
IsBox(v) == v > BoxBase
BoxId(v) == v - BoxBase
BoxIds == 1..MaxBox

Maps == {"A", "B"}   \* the non-nil *KVMap objects
NilMap == "nilmap"   \* (*KVMap)(nil)
NilIface == "nil"    \* a nil KVStore interface value in a KVStores list
Lists == {<<>>, <<"A", "B">>, <<NilIface, "A">>, <<"B", NilMap, "A">>}
NilLists == {<<>>, <<NilIface, NilMap>>}  \* KVStores(nil), and a list of nil stores

VARIABLES
  vals,      \* vals[m][k]: m.vals[k], or Missing
  tbl,       \* tbl[m]: m.vals != nil
  mu,        \* mu[m]: holder of m.mu
  boxVal,    \* boxVal[b]: kvRef.val of box b
  boxLock,   \* boxLock[b]: holder of the kvRef's mutex
  nbox,      \* number of kvRef objects allocated so far
  kvl,       \* the KVStores list under test
  pc,        \* pc[p]: where goroutine p is
  op,        \* op[p]: the call the goroutine made (kept after it returned)
  cur,       \* cur[p]: the KVMap call in progress (op[p], or one made by a KVStores loop)
  loc,       \* loc[p]: the local `ref` of Ref / unref
  idx,       \* idx[p]: position of a KVStores loop
  ret,       \* ret[p]: the value returned
  vrem,      \* vrem[p]: keys Values' range loop has not visited yet
  vout,      \* vout[p]: the map Values builds and returns
  solo,      \* history: no other call overlapped p's call
  called,    \* history: p's call invoked its initializer
  refInits,  \* history: initializer invocations while scen.s = "ref"
  refRets,   \* history: values the calls returned while scen.s = "ref"
  lastWrite, \* history: lastWrite[m][k], the most recent write to k
  scen,      \* history: which calls have been made so far
  nops,      \* history: number of calls made
  wrote,     \* history: wrote[p]: a Put, Del or Clear changed the key of p's Ref
             \* call after the call was made
  nest,      \* nest[p]: the call into the map p's initializer is making
  reent,     \* history: an initializer has called into the map
  \* -- the Agent --
  gpc,          \* gpc[g]: where goroutine g is
  input,        \* the requests still to come on the input stream
  term,         \* how the input stream ends: "eof", "err", or "open" (it stays open)
  dec,          \* the outcome of the last Decode: "none", "req", "eof" or "err"
  runErr,       \* the error Run returns: "nil" or "err"
  stdinClosed,  \* number of ag.stdin.Close() calls
  stdoutClosed, \* number of ag.stdout.Close() calls
  doneClosed,   \* number of close(sd.done) calls
  sdClosed,     \* ag.sd.closed
  sdMu,         \* holder of ag.sd.mu
  agMu,         \* holder of ag.mu
  wg,           \* counter of ag.wg
  sendErr,      \* sendErr[g]: the error of g's last send
  panicking,    \* the goroutines unwinding a panic
  steps,        \* history: the shutdown steps performed, in order
  bad,          \* history: the shutdown steps that failed or panicked
  doer,         \* history: the goroutine that performed the shutdown steps
  decoded,      \* history: number of requests decoded
  handled,      \* history: number of requests handed to the state machine
  pushes,       \* history: number of pushes made
  encBuf,       \* the chunks ag.encWr (a bufio.Writer) holds
  out,          \* the chunks written to the output stream
  wrErr,        \* ag.encWr has recorded a write error (it keeps it)
  msg,          \* msg[g]: the message of g's send
  flushErr,     \* flushErr[g]: the Flush of g's last send failed
  rq,           \* the request the loop decoded last
  handedSeq,    \* history: the requests handed to the state machine, in order
  \* -- NewAgent --
  npc,          \* where the NewAgent call is
  ncfg,         \* the AgentConfig it was given
  nag,          \* the Agent it builds
  nerr          \* the error it returns

kvvars == <<vals, tbl, mu, boxVal, boxLock, nbox, kvl, pc, op, cur, loc, idx, ret,
            vrem, vout, solo, called, refInits, refRets, lastWrite, scen, nops,
            wrote, nest, reent>>
agvars == <<gpc, input, term, dec, runErr, stdinClosed, stdoutClosed, doneClosed,
            sdClosed, sdMu, agMu, wg, sendErr, panicking, steps, bad, doer, decoded,
            handled, pushes, encBuf, out, wrErr, msg, flushErr, rq, handedSeq>>
navars == <<npc, ncfg, nag, nerr>>
vars == <<kvvars, agvars, navars>>

NoOp == [name |-> "none", m |-> NilIface, k |-> 0, v |-> Nil]
NoWrite == [w |-> "none", v |-> Nil]
NoNest == [at |-> "none", name |-> "none", k |-> 0, b |-> 0]
EmptyOut == [k \in Keys |-> Missing]

InitKVState ==
  /\ vals = [m \in Maps |-> [k \in Keys |-> Missing]]
  /\ tbl = [m \in Maps |-> FALSE]
  /\ mu = [m \in Maps |-> None]
  /\ boxVal = [b \in BoxIds |-> Nil]
  /\ boxLock = [b \in BoxIds |-> None]
  /\ nbox = 0
  /\ pc = [p \in Procs |-> "idle"]
  /\ op = [p \in Procs |-> NoOp]
  /\ cur = [p \in Procs |-> NoOp]
  /\ loc = [p \in Procs |-> 0]
  /\ idx = [p \in Procs |-> 0]
  /\ ret = [p \in Procs |-> Nil]
  /\ vrem = [p \in Procs |-> {}]
  /\ vout = [p \in Procs |-> EmptyOut]
  /\ solo = [p \in Procs |-> FALSE]
  /\ called = [p \in Procs |-> FALSE]
  /\ refInits = 0
  /\ refRets = {}
  /\ lastWrite = [m \in Maps |-> [k \in Keys |-> NoWrite]]
  /\ scen = [s |-> "fresh", m |-> NilIface, k |-> 0, v |-> Nil]
  /\ nops = 0
  /\ wrote = [p \in Procs |-> FALSE]
  /\ nest = [p \in Procs |-> NoNest]
  /\ reent = FALSE

\* ---- KVMap helpers ------------------------------------------------------
\* a method without its nil check
IsNilRecvNever(m) == FALSE

\* `if m == nil` at the head of every KVMap method
IsNilRecv(m) == m = NilMap

\* m.vals[k]: a key that is not in the map reads as nil
Lookup(m, k) == IF vals[m][k] = Missing THEN Nil ELSE vals[m][k]

\* a ref() that boxes whatever it finds, a box included
NeedsBoxAlways(v) == TRUE

\* `ref, ok := v.(*kvRef); if !ok`: ref() makes a new box unless v is one
NeedsBox(v) == ~IsBox(v)

\* `ref, boxed := v.(*kvRef)` of unref
Boxed(v) == IsBox(v)

\* an unref that hands back what it is given, box or not
unrefRaw(v) == v

\* unref's result, once it holds the box lock
unref(v) == IF Boxed(v) THEN boxVal[BoxId(v)] ELSE v

\* an unref that reads ref.val without the box lock
CanUnrefAlways(v) == TRUE

\* unref can take the box lock (an unboxed value needs none)
CanUnref(v) == Boxed(v) => boxLock[BoxId(v)] = None

\* a Ref that calls its initializer whatever the box holds
UnmaterializedAlways(v) == TRUE

\* `if ref.val == nil` of Ref: the initializer runs
Unmaterialized(v) == v = Nil

\* the caller gets its result; a call made by a KVStores loop returns into the loop
Return(p, r) ==
  /\ pc' = [pc EXCEPT ![p] = IF op[p].m = "kvl" THEN "SNext" ELSE "idle"]
  /\ ret' = [ret EXCEPT ![p] = r]

\* a nil pointer dereference
Panic(p) ==
  /\ pc' = [pc EXCEPT ![p] = "panic"]
  /\ UNCHANGED ret

\* ---- calls --------------------------------------------------------------
\* history: the calls made so far are all Ref(k, init) on one map with one init
ScenAfter(name, m, k, v) ==
  LET r == [s |-> "ref", m |-> m, k |-> k, v |-> v] IN
  IF name = "Ref" /\ m \in Maps /\ (scen.s = "fresh" \/ scen = r) THEN r
  ELSE [s |-> "mixed", m |-> NilIface, k |-> 0, v |-> Nil]

\* a goroutine calls method `name` of receiver m with key k and value (or
\* initializer result) v. Procs are the slots of the calls in flight: the
\* goroutines of a Go program have no identity the stores can see, so a new
\* call takes the lowest free slot.
Call(p, name, m, k, v) ==
  LET new == [name |-> name, m |-> m, k |-> k, v |-> v]
      \* the record of a call that returned is kept until the next call is made
      keep(q) == pc[q] # "idle"
      pure == ScenAfter(name, m, k, v).s = "ref"
  IN
  /\ pc[p] = "idle"
  /\ \A q \in Procs : q < p => pc[q] # "idle"
  /\ nops < MaxOps
  /\ name = "Ref" /\ m \in Maps =>
       nbox + Cardinality({q \in Procs : pc[q] = "Ref"}) < MaxBox
  /\ pc' = [pc EXCEPT ![p] = IF m = "kvl" THEN "SLoop" ELSE name]
  /\ op' = [q \in Procs |-> IF q = p THEN new ELSE IF keep(q) THEN op[q] ELSE NoOp]
  /\ cur' = [q \in Procs |-> IF q = p THEN new ELSE IF keep(q) THEN cur[q] ELSE NoOp]
  /\ idx' = [q \in Procs |-> IF q = p THEN 1 ELSE IF keep(q) THEN idx[q] ELSE 0]
  /\ ret' = [q \in Procs |-> IF q = p \/ ~keep(q) THEN Nil ELSE ret[q]]
  /\ vout' = [q \in Procs |-> IF q = p \/ ~keep(q) THEN EmptyOut ELSE vout[q]]
  /\ loc' = [q \in Procs |-> IF q = p \/ ~keep(q) THEN 0 ELSE loc[q]]
  /\ called' = [q \in Procs |-> IF q = p \/ ~keep(q) THEN FALSE ELSE called[q]]
  /\ solo' = [q \in Procs |-> q = p /\ \A r \in Procs \ {p} : pc[r] = "idle"]
  /\ scen' = ScenAfter(name, m, k, v)
  /\ nops' = nops + 1
  /\ refInits' = IF pure THEN refInits ELSE 0
  /\ refRets' = IF pure THEN refRets ELSE {}
  /\ wrote' = [q \in Procs |-> IF q = p \/ ~keep(q) THEN FALSE ELSE wrote[q]]
  /\ UNCHANGED <<vals, tbl, mu, boxVal, boxLock, nbox, kvl, vrem, lastWrite, agvars, navars>>
  /\ UNCHANGED <<nest, reent>>

\* ---- KVMap --------------------------------------------------------------
\* history: goroutine p changes key k of map m (every key when all is TRUE):
\* the Ref calls on that key that were made before, returned or not, are marked
Wrote(p, m, k, all) ==
  wrote' = [q \in Procs |->
              wrote[q] \/ (/\ q # p
                           /\ op[q].name = "Ref"
                           /\ cur[q].m = m
                           /\ all \/ cur[q].k = k)]

\* a put that keeps what the key already holds
putIfAbsent(m, k, v) ==
  /\ tbl' = [tbl EXCEPT ![m] = TRUE]
  /\ vals' = [vals EXCEPT ![m][k] = IF vals[m][k] = Missing THEN v ELSE vals[m][k]]

\* m.put(k, v)
put(m, k, v) ==
  /\ tbl' = [tbl EXCEPT ![m] = TRUE]
  /\ vals' = [vals EXCEPT ![m][k] = v]

\* a ref() that makes the box and leaves the map as it is
putBoxNowhere(m, k, b) == UNCHANGED <<vals, tbl>>

\* `m.put(k, ref)` of ref(): the new box goes under k
putBox(m, k, b) == put(m, k, Box(b))

\* KVMap.Put: Lock, put, Unlock
Put(p) ==
  /\ pc[p] = "Put"
  /\ LET m == cur[p].m
         k == cur[p].k
         v == cur[p].v IN
     IF IsNilRecv(m) THEN
       /\ Return(p, Nil)
       /\ UNCHANGED <<vals, tbl, lastWrite, wrote>>
     ELSE IF m \notin Maps THEN
       /\ Panic(p)
       /\ UNCHANGED <<vals, tbl, lastWrite, wrote>>
     ELSE
       /\ mu[m] = None
       /\ Wrote(p, m, k, FALSE)
       /\ put(m, k, v)
       /\ lastWrite' = [lastWrite EXCEPT ![m][k] = [w |-> "put", v |-> v]]
       /\ Return(p, Nil)
  /\ UNCHANGED <<mu, boxVal, boxLock, nbox, kvl, op, cur, loc, idx, vrem, vout,
                 solo, called, refInits, refRets, scen, nops, agvars, navars>>
  /\ UNCHANGED <<nest, reent>>

\* KVMap.Get up to `return m.unref(v)`: the read of m.vals[k] under m.mu; an
\* unboxed value is returned as it is
Get(p) ==
  /\ pc[p] = "Get"
  /\ LET m == cur[p].m
         k == cur[p].k IN
     IF IsNilRecv(m) THEN
       /\ Return(p, Nil)
       /\ UNCHANGED loc
     ELSE IF m \notin Maps THEN
       /\ Panic(p)
       /\ UNCHANGED loc
     ELSE
       /\ mu[m] = None
       /\ IF Boxed(Lookup(m, k)) THEN
            /\ loc' = [loc EXCEPT ![p] = BoxId(Lookup(m, k))]
            /\ pc' = [pc EXCEPT ![p] = "unref"]
            /\ UNCHANGED ret
          ELSE
            /\ Return(p, unref(Lookup(m, k)))
            /\ UNCHANGED loc
  /\ UNCHANGED <<vals, tbl, mu, boxVal, boxLock, nbox, kvl, op, cur, idx, vrem, vout,
                 solo, called, refInits, refRets, lastWrite, scen, nops, agvars, navars>>
  /\ UNCHANGED <<wrote, nest, reent>>

\* KVMap.unref of a boxed value, called by Get: Lock, read ref.val, Unlock
Unref(p) ==
  /\ pc[p] = "unref"
  /\ CanUnref(Box(loc[p]))
  /\ Return(p, unref(Box(loc[p])))
  /\ UNCHANGED <<vals, tbl, mu, boxVal, boxLock, nbox, kvl, op, cur, loc, idx, vrem,
                 vout, solo, called, refInits, refRets, lastWrite, scen, nops, agvars, navars>>
  /\ UNCHANGED <<wrote, nest, reent>>

\* KVMap.Ref up to `ref.Lock()`: on a nil map the initializer is called and
\* its result returned; otherwise m.ref(k) under m.mu fetches or creates the box
Ref(p) ==
  /\ pc[p] = "Ref"
  /\ LET m == cur[p].m
         k == cur[p].k IN
     IF IsNilRecv(m) THEN
       /\ Return(p, cur[p].v)
       /\ called' = [called EXCEPT ![p] = TRUE]
       /\ UNCHANGED <<vals, tbl, boxVal, nbox, loc>>
     ELSE IF m \notin Maps THEN
       /\ Panic(p)
       /\ UNCHANGED <<vals, tbl, boxVal, nbox, loc, called>>
     ELSE
       /\ mu[m] = None
       /\ IF NeedsBox(Lookup(m, k)) THEN
            /\ nbox < MaxBox
            /\ nbox' = nbox + 1
            /\ boxVal' = [boxVal EXCEPT ![nbox + 1] = Lookup(m, k)]
            /\ putBox(m, k, nbox + 1)
            /\ loc' = [loc EXCEPT ![p] = nbox + 1]
          ELSE
            /\ loc' = [loc EXCEPT ![p] = BoxId(Lookup(m, k))]
            /\ UNCHANGED <<vals, tbl, boxVal, nbox>>
       /\ pc' = [pc EXCEPT ![p] = "RefLock"]
       /\ UNCHANGED <<ret, called>>
  /\ UNCHANGED <<mu, boxLock, kvl, op, cur, idx, vrem, vout, solo, refInits, refRets,
                 lastWrite, scen, nops, agvars, navars>>
  /\ UNCHANGED <<wrote, nest, reent>>

\* KVMap.Ref: ref.Lock(), then `if ref.val == nil`: a materialized box is
\* returned at once, otherwise the initializer starts under the box lock
RefLock(p) ==
  /\ pc[p] = "RefLock"
  /\ boxLock[loc[p]] = None
  /\ IF Unmaterialized(boxVal[loc[p]]) THEN
       /\ boxLock' = [boxLock EXCEPT ![loc[p]] = p]
       /\ pc' = [pc EXCEPT ![p] = "RefInit"]
       /\ UNCHANGED <<ret, refRets>>
     ELSE
       /\ Return(p, boxVal[loc[p]])
       /\ refRets' = IF scen.s = "ref" THEN refRets \cup {boxVal[loc[p]]} ELSE refRets
       /\ UNCHANGED boxLock
  /\ UNCHANGED <<vals, tbl, mu, boxVal, nbox, kvl, op, cur, loc, idx, vrem, vout,
                 solo, called, refInits, lastWrite, scen, nops, agvars, navars>>
  /\ UNCHANGED <<wrote, nest, reent>>

\* KVMap.Ref: the initializer returns (once a call it has made into the map
\* has returned), `ref.val = new()`, return ref.val and the deferred ref.Unlock()
RefInit(p) ==
  /\ pc[p] = "RefInit"
  /\ nest[p].at \in {"none", "done"}
  /\ nest' = [nest EXCEPT ![p] = NoNest]
  /\ LET m == cur[p].m
         k == cur[p].k
         b == loc[p] IN
     /\ boxVal' = [boxVal EXCEPT ![b] = cur[p].v]
     /\ boxLock' = [boxLock EXCEPT ![b] = None]
     /\ lastWrite' = IF vals[m][k] = Box(b) /\ cur[p].v # Nil
                     THEN [lastWrite EXCEPT ![m][k] = [w |-> "ref", v |-> cur[p].v]]
                     ELSE lastWrite
  /\ called' = [called EXCEPT ![p] = TRUE]
  /\ refInits' = IF scen.s = "ref" THEN refInits + 1 ELSE refInits
  /\ refRets' = IF scen.s = "ref" THEN refRets \cup {cur[p].v} ELSE refRets
  /\ Return(p, cur[p].v)
  /\ UNCHANGED <<vals, tbl, mu, nbox, kvl, op, cur, loc, idx, vrem, vout, solo, scen,
                 nops, agvars, navars>>
  /\ UNCHANGED <<wrote, reent>>

\* ---- initializers that call into the map --------------------------------
\* the initializer new() that Ref is running calls m.Put(k, v) or m.Get(k)
\* on the map it is called from
InitCalls(p) ==
  /\ pc[p] = "RefInit"
  /\ nest[p].at = "none"
  /\ \E name \in {"Put", "Get"} : \E k \in Keys :
       nest' = [nest EXCEPT ![p] = [at |-> "call", name |-> name, k |-> k, b |-> 0]]
  /\ reent' = TRUE
  /\ UNCHANGED <<vals, tbl, mu, boxVal, boxLock, nbox, kvl, pc, op, cur, loc, idx, ret,
                 vrem, vout, solo, called, refInits, refRets, lastWrite, scen, nops,
                 wrote, agvars, navars>>

\* the call the initializer made takes m.mu: Put stores its value, Get
\* reads m.vals[k] and goes on to unref when that is a box
InitCallStep(p) ==
  /\ pc[p] = "RefInit"
  /\ nest[p].at = "call"
  /\ LET m == cur[p].m
         k == nest[p].k IN
     /\ mu[m] = None
     /\ IF nest[p].name = "Put" THEN
          /\ put(m, k, cur[p].v)
          /\ Wrote(p, m, k, FALSE)
          /\ lastWrite' = [lastWrite EXCEPT ![m][k] = [w |-> "put", v |-> cur[p].v]]
          /\ nest' = [nest EXCEPT ![p].at = "done"]
        ELSE
          /\ nest' = [nest EXCEPT ![p].at = IF Boxed(Lookup(m, k)) THEN "unref" ELSE "done",
                                  ![p].b = IF Boxed(Lookup(m, k)) THEN BoxId(Lookup(m, k)) ELSE 0]
          /\ UNCHANGED <<vals, tbl, wrote, lastWrite>>
  /\ UNCHANGED <<mu, boxVal, boxLock, nbox, kvl, pc, op, cur, loc, idx, ret, vrem, vout,
                 solo, called, refInits, refRets, scen, nops, reent, agvars, navars>>

\* the unref of the initializer's Get: Lock of the box, read, Unlock
InitCallUnref(p) ==
  /\ pc[p] = "RefInit"
  /\ nest[p].at = "unref"
  /\ CanUnref(Box(nest[p].b))
  /\ nest' = [nest EXCEPT ![p].at = "done"]
  /\ UNCHANGED <<vals, tbl, mu, boxVal, boxLock, nbox, kvl, pc, op, cur, loc, idx, ret,
                 vrem, vout, solo, called, refInits, refRets, lastWrite, scen, nops,
                 wrote, reent, agvars, navars>>

\* KVMap.Del: Lock, delete(m.vals, k), Unlock
Del(p) ==
  /\ pc[p] = "Del"
  /\ LET m == cur[p].m
         k == cur[p].k IN
     IF IsNilRecv(m) THEN
       /\ Return(p, Nil)
       /\ UNCHANGED <<vals, lastWrite, wrote>>
     ELSE IF m \notin Maps THEN
       /\ Panic(p)
       /\ UNCHANGED <<vals, lastWrite, wrote>>
     ELSE
       /\ mu[m] = None
       /\ Wrote(p, m, k, FALSE)
       /\ vals' = [vals EXCEPT ![m][k] = Missing]
       /\ lastWrite' = [lastWrite EXCEPT ![m][k] = [w |-> "del", v |-> Nil]]
       /\ Return(p, Nil)
  /\ UNCHANGED <<tbl, mu, boxVal, boxLock, nbox, kvl, op, cur, loc, idx, vrem, vout,
                 solo, called, refInits, refRets, scen, nops, agvars, navars>>
  /\ UNCHANGED <<nest, reent>>

\* KVMap.Clear: Lock, m.vals = nil, Unlock
Clear(p) ==
  /\ pc[p] = "Clear"
  /\ LET m == cur[p].m IN
     IF IsNilRecv(m) THEN
       /\ Return(p, Nil)
       /\ UNCHANGED <<vals, tbl, lastWrite, wrote>>
     ELSE IF m \notin Maps THEN
       /\ Panic(p)
       /\ UNCHANGED <<vals, tbl, lastWrite, wrote>>
     ELSE
       /\ mu[m] = None
       /\ Wrote(p, m, 0, TRUE)
       /\ tbl' = [tbl EXCEPT ![m] = FALSE]
       /\ vals' = [vals EXCEPT ![m] = [k \in Keys |-> Missing]]
       /\ lastWrite' = [lastWrite EXCEPT ![m] = [k \in Keys |-> [w |-> "clear", v |-> Nil]]]
       /\ Return(p, Nil)
  /\ UNCHANGED <<mu, boxVal, boxLock, nbox, kvl, op, cur, loc, idx, vrem, vout,
                 solo, called, refInits, refRets, scen, nops, agvars, navars>>
  /\ UNCHANGED <<nest, reent>>

\* KVMap.Values up to the range loop: nil for a nil map, otherwise m.mu is
\* taken (and held until the method returns) and the empty copy made
Values(p) ==
  /\ pc[p] = "Values"
  /\ LET m == cur[p].m IN
     IF IsNilRecv(m) THEN
       /\ Return(p, Nil)
       /\ UNCHANGED <<mu, vrem>>
     ELSE IF m \notin Maps THEN
       /\ Panic(p)
       /\ UNCHANGED <<mu, vrem>>
     ELSE
       /\ mu[m] = None
       /\ mu' = [mu EXCEPT ![m] = p]
       /\ vrem' = [vrem EXCEPT ![p] = {k \in Keys : vals[m][k] # Missing}]
       /\ pc' = [pc EXCEPT ![p] = "ValIter"]
       /\ UNCHANGED ret
  /\ UNCHANGED <<vals, tbl, boxVal, boxLock, nbox, kvl, op, cur, loc, idx, vout,
                 solo, called, refInits, refRets, lastWrite, scen, nops, agvars, navars>>
  /\ UNCHANGED <<wrote, nest, reent>>

\* a method that returns without unlocking
ReleasedNever(holder) == holder

\* the deferred m.mu.Unlock() of Values
Released(holder) == None

\* KVMap.Values: one iteration of `for k, v := range m.vals` (in any order),
\* m.unref(v) taking the box lock while m.mu is held; after the last one
\* the copy is returned and the deferred m.mu.Unlock() runs
ValIter(p) ==
  /\ pc[p] = "ValIter"
  /\ LET m == cur[p].m IN
     IF vrem[p] = {} THEN
       /\ mu' = [mu EXCEPT ![m] = Released(p)]
       /\ Return(p, Nil)
       /\ UNCHANGED <<vrem, vout>>
     ELSE
       /\ \E k \in vrem[p] :
            /\ CanUnref(vals[m][k])
            /\ vout' = [vout EXCEPT ![p][k] =
                          IF unref(vals[m][k]) # Nil THEN unref(vals[m][k]) ELSE Missing]
            /\ vrem' = [vrem EXCEPT ![p] = vrem[p] \ {k}]
       /\ UNCHANGED <<mu, pc, ret>>
  /\ UNCHANGED <<vals, tbl, boxVal, boxLock, nbox, kvl, op, cur, loc, idx, solo,
                 called, refInits, refRets, lastWrite, scen, nops, agvars, navars>>
  /\ UNCHANGED <<wrote, nest, reent>>

\* ---- KVStores -----------------------------------------------------------
\* the KVMap method a KVStores method calls on each store
Inner(name) == CASE name = "SPut" -> "Put"
                 [] name = "SGet" -> "Get"
                 [] OTHER -> "Del"

\* `if kvs == nil { continue }`
SkipEntry(kvs) == kvs = NilIface

\* KVStores.Put/Get/Del: the head of `for _, kvs := range kvl`: the method
\* returns after the last entry (Get: nil), skips a nil entry and calls the
\* store's method otherwise
SLoop(p) ==
  /\ pc[p] = "SLoop"
  /\ IF idx[p] > Len(kvl) THEN
       /\ pc' = [pc EXCEPT ![p] = "idle"]
       /\ ret' = [ret EXCEPT ![p] = Nil]
       /\ UNCHANGED <<idx, cur>>
     ELSE IF SkipEntry(kvl[idx[p]]) THEN
       /\ idx' = [idx EXCEPT ![p] = idx[p] + 1]
       /\ UNCHANGED <<pc, ret, cur>>
     ELSE
       /\ cur' = [cur EXCEPT ![p] = [name |-> Inner(op[p].name), m |-> kvl[idx[p]],
                                     k |-> op[p].k, v |-> op[p].v]]
       /\ pc' = [pc EXCEPT ![p] = Inner(op[p].name)]
       /\ UNCHANGED <<idx, ret>>
  /\ UNCHANGED <<vals, tbl, mu, boxVal, boxLock, nbox, kvl, op, loc, vrem, vout,
                 solo, called, refInits, refRets, lastWrite, scen, nops, agvars, navars>>
  /\ UNCHANGED <<wrote, nest, reent>>

\* a Get that returns what the first store says, nil or not
HitAlways(v) == TRUE

\* `if v := kvs.Get(k); v != nil { return v }` of KVStores.Get
Hit(v) == v # Nil

\* KVStores.Put/Get/Del: the store's method returned; Get returns the first
\* hit, otherwise the loop goes on
SNext(p) ==
  /\ pc[p] = "SNext"
  /\ IF op[p].name = "SGet" /\ Hit(ret[p]) THEN
       /\ pc' = [pc EXCEPT ![p] = "idle"]
       /\ UNCHANGED idx
     ELSE
       /\ pc' = [pc EXCEPT ![p] = "SLoop"]
       /\ idx' = [idx EXCEPT ![p] = idx[p] + 1]
  /\ UNCHANGED <<vals, tbl, mu, boxVal, boxLock, nbox, kvl, op, cur, loc, ret, vrem,
                 vout, solo, called, refInits, refRets, lastWrite, scen, nops, agvars, navars>>
  /\ UNCHANGED <<wrote, nest, reent>>

KVStep(p) ==
  \/ Put(p) \/ Get(p) \/ Unref(p) \/ Ref(p) \/ RefLock(p) \/ RefInit(p)
  \/ Del(p) \/ Clear(p) \/ Values(p) \/ ValIter(p)

\* ---- the Agent ---------------------------------------------------------
RunG == 1                                 \* the goroutine that calls Agent.Run
Pushers == {2, 3}                         \* tasks of the state machine that push a state
SdGs == {10 + i : i \in 1..MaxPush}       \* goroutines made by `go ag.shutdown()`
Gs == {RunG} \cup Pushers \cup SdGs

\* the five steps in the order the deferred calls of shutdown run
Order == <<"stdin", "wait", "dispatch", "stdout", "done">>

InitAgentState ==
  /\ gpc = [g \in Gs |-> IF g = RunG THEN "start" ELSE IF g \in Pushers THEN "idle" ELSE "off"]
  /\ dec = "none"
  /\ runErr = "nil"
  /\ stdinClosed = 0
  /\ stdoutClosed = 0
  /\ doneClosed = 0
  /\ sdClosed = FALSE
  /\ sdMu = None
  /\ agMu = None
  /\ wg = 0
  /\ sendErr = [g \in Pushers |-> "nil"]
  /\ panicking = {}
  /\ steps = <<>>
  /\ bad = {}
  /\ doer = None
  /\ decoded = 0
  /\ handled = 0
  /\ pushes = 0
  /\ encBuf = <<>>
  /\ out = <<>>
  /\ wrErr = FALSE
  /\ msg = [g \in Pushers |-> 0]
  /\ flushErr = [g \in Pushers |-> FALSE]
  /\ rq = 0
  /\ handedSeq = <<>>

\* the Agent of the specifications that exercise the stores only
InitAgentIdle == InitAgentState /\ input = 0 /\ term = "open"

Go(g, to) == gpc' = [gpc EXCEPT ![g] = to]

\* Agent.communicate up to the loop: Started is dispatched, the store is ready
Start ==
  /\ gpc[RunG] = "start"
  /\ Go(RunG, "decode")
  /\ UNCHANGED <<kvvars, navars, input, term, dec, runErr, stdinClosed, stdoutClosed, doneClosed,
                 sdClosed, sdMu, agMu, wg, sendErr, panicking, steps, bad, doer, decoded,
                 handled, pushes,
                 encBuf, out, wrErr, msg, flushErr, rq, handedSeq>>

\* a communicate that reports end-of-stream as an error too
CommunicateResultStrict(d) == "err"

\* a communicate that swallows the decode error
CommunicateResultLax(d) == "nil"

\* `if err == io.EOF { return nil }; return fmt.Errorf("ipc.decode: %s", err)`
CommunicateResult(d) == IF d = "eof" THEN "nil" ELSE "err"

\* what ag.dec.Decode(rq) can give: the next request, or how the stream ends
\* (nothing while an open stream has no more bytes); once the stream is
\* closed a read fails, but requests the bufio.Reader holds still decode
DecodeOutcomes ==
  (IF input > 0 THEN {"req"} ELSE IF term = "open" THEN {} ELSE {term})
  \cup (IF stdinClosed > 0 THEN {"err"} ELSE {})

\* a loop that decodes the next request without handing this one off
AfterDecodeReadAhead(d) == IF d = "req" THEN "decode" ELSE "sd_lock"

\* the loop body after Decode: `rq.finalize(ag); ag.handleReq(rq)` for a
\* request, the return to Run (and its deferred shutdown) for a failure
AfterDecode(d) == IF d = "req" THEN "add" ELSE "sd_lock"

\* Agent.communicate: one Decode; a request goes on to handleReq, a failure
\* ends the loop and Run goes on to its deferred shutdown; the requests are
\* numbered by their position on the stream
Decode ==
  /\ gpc[RunG] = "decode"
  /\ \E d \in DecodeOutcomes :
       /\ dec' = d
       /\ Go(RunG, AfterDecode(d))
       /\ IF d = "req" THEN
            /\ input' = input - 1
            /\ decoded' = decoded + 1
            /\ rq' = decoded + 1
            /\ UNCHANGED runErr
          ELSE
            /\ runErr' = CommunicateResult(d)
            /\ UNCHANGED <<input, decoded, rq>>
  /\ UNCHANGED <<kvvars, navars, term, stdinClosed, stdoutClosed, doneClosed, sdClosed, sdMu, agMu,
                 wg, sendErr, panicking, steps, bad, doer, handled, pushes,
                 encBuf, out, wrErr, msg, flushErr, handedSeq>>

\* rq.finalize(ag) and handleReq's ag.wg.Add(1)
WgAdd ==
  /\ gpc[RunG] = "add"
  /\ wg' = wg + 1
  /\ Go(RunG, "syncRq")
  /\ UNCHANGED <<kvvars, navars, input, term, dec, runErr, stdinClosed, stdoutClosed, doneClosed,
                 sdClosed, sdMu, agMu, sendErr, panicking, steps, bad, doer, decoded,
                 handled, pushes,
                 encBuf, out, wrErr, msg, flushErr, rq, handedSeq>>

\* handleReq's ag.Store.syncRq(ag, rq): the state machine handles the request
SyncRq ==
  /\ gpc[RunG] = "syncRq"
  /\ handled' = handled + 1
  /\ handedSeq' = Append(handedSeq, rq)
  /\ Go(RunG, "wgdone")
  /\ UNCHANGED <<kvvars, navars, input, term, dec, runErr, stdinClosed, stdoutClosed, doneClosed,
                 sdClosed, sdMu, agMu, wg, sendErr, panicking, steps, bad, doer, decoded,
                 pushes, encBuf, out, wrErr, msg, flushErr, rq>>

\* handleReq's deferred ag.wg.Done(), and back to the head of the loop
WgDone ==
  /\ gpc[RunG] = "wgdone"
  /\ wg' = wg - 1
  /\ Go(RunG, "decode")
  /\ UNCHANGED <<kvvars, navars, input, term, dec, runErr, stdinClosed, stdoutClosed, doneClosed,
                 sdClosed, sdMu, agMu, sendErr, panicking, steps, bad, doer, decoded,
                 handled, pushes,
                 encBuf, out, wrErr, msg, flushErr, rq, handedSeq>>

\* ---- Agent.shutdown -----------------------------------------------------
\* a shutdown without its one-shot flag
AlreadyClosedNever(c) == FALSE

\* `if sd.closed { return }`
AlreadyClosed(c) == c

\* a shutdown that does not wait for sd.mu
CanLockAlways(holder) == TRUE

\* sd.mu.Lock() goes through when nobody holds sd.mu
CanLock(holder) == holder = None

\* the step that follows in the order the deferred calls run
NextOf(step) ==
  CASE step = "sd_stdin" -> "sd_wait"
    [] step = "sd_wait" -> "sd_dispatch"
    [] step = "sd_dispatch" -> "sd_stdout"
    [] step = "sd_stdout" -> "sd_done"
    [] OTHER -> "sd_unlock"

\* the steps as plain statements after `defer sd.mu.Unlock()`: a panic
\* skips the ones that follow
AfterStepPlain(step, outcome) ==
  IF outcome = "panic" THEN "sd_unlock" ELSE NextOf(step)

\* the steps are deferred calls: the next one runs whether the one before
\* returned, returned an error (which is dropped) or panicked
AfterStep(step, outcome) == NextOf(step)

\* shutdown up to its deferred calls: sd.mu.Lock(); a shutdown that finds
\* sd.closed set returns (through the deferred Unlock), the first one sets it
SdLock(g) ==
  /\ gpc[g] = "sd_lock"
  /\ CanLock(sdMu)
  /\ sdMu' = g
  /\ IF AlreadyClosed(sdClosed) THEN
       /\ Go(g, "sd_unlock")
       /\ UNCHANGED <<sdClosed, doer>>
     ELSE
       /\ sdClosed' = TRUE
       /\ doer' = g
       /\ Go(g, "sd_stdin")
  /\ UNCHANGED <<kvvars, navars, input, term, dec, runErr, stdinClosed, stdoutClosed, doneClosed,
                 agMu, wg, sendErr, panicking, steps, bad, decoded, handled, pushes,
                 encBuf, out, wrErr, msg, flushErr, rq, handedSeq>>

\* one deferred call of shutdown has run with the given outcome
Stepped(g, pcname, step, outcome) ==
  /\ gpc[g] = pcname
  /\ steps' = Append(steps, step)
  /\ bad' = IF outcome = "ok" THEN bad ELSE bad \cup {step}
  /\ panicking' = IF outcome = "panic" THEN panicking \cup {g} ELSE panicking
  /\ Go(g, AfterStep(pcname, outcome))

\* `defer ag.stdin.Close()`: runs first
SdStdin(g) ==
  /\ \E outcome \in {"ok", "err", "panic"} : Stepped(g, "sd_stdin", "stdin", outcome)
  /\ stdinClosed' = stdinClosed + 1
  /\ UNCHANGED <<kvvars, navars, input, term, dec, runErr, stdoutClosed, doneClosed, sdClosed, sdMu,
                 agMu, wg, sendErr, doer, decoded, handled, pushes,
                 encBuf, out, wrErr, msg, flushErr, rq, handedSeq>>

\* `defer ag.wg.Wait()`: returns when the counter is zero
SdWait(g) ==
  /\ wg = 0
  /\ Stepped(g, "sd_wait", "wait", "ok")
  /\ UNCHANGED <<kvvars, navars, input, term, dec, runErr, stdinClosed, stdoutClosed, doneClosed,
                 sdClosed, sdMu, agMu, wg, sendErr, doer, decoded, handled, pushes,
                 encBuf, out, wrErr, msg, flushErr, rq, handedSeq>>

\* `defer ag.Store.dispatch(Shutdown{})`
SdDispatch(g) ==
  /\ \E outcome \in {"ok", "panic"} : Stepped(g, "sd_dispatch", "dispatch", outcome)
  /\ UNCHANGED <<kvvars, navars, input, term, dec, runErr, stdinClosed, stdoutClosed, doneClosed,
                 sdClosed, sdMu, agMu, wg, sendErr, doer, decoded, handled, pushes,
                 encBuf, out, wrErr, msg, flushErr, rq, handedSeq>>

\* `defer ag.stdout.Close()`
SdStdout(g) ==
  /\ \E outcome \in {"ok", "err", "panic"} : Stepped(g, "sd_stdout", "stdout", outcome)
  /\ stdoutClosed' = stdoutClosed + 1
  /\ UNCHANGED <<kvvars, navars, input, term, dec, runErr, stdinClosed, doneClosed, sdClosed, sdMu,
                 agMu, wg, sendErr, doer, decoded, handled, pushes,
                 encBuf, out, wrErr, msg, flushErr, rq, handedSeq>>

\* `defer close(sd.done)`: closing a closed channel panics
SdDone(g) ==
  /\ Stepped(g, "sd_done", "done", IF doneClosed = 0 THEN "ok" ELSE "panic")
  /\ doneClosed' = doneClosed + 1
  /\ UNCHANGED <<kvvars, navars, input, term, dec, runErr, stdinClosed, stdoutClosed, sdClosed, sdMu,
                 agMu, wg, sendErr, doer, decoded, handled, pushes,
                 encBuf, out, wrErr, msg, flushErr, rq, handedSeq>>

\* `defer sd.mu.Unlock()` runs last; shutdown returns to Run, which returns
\* runErr, or ends its goroutine; a panic goes on up the stack
SdUnlock(g) ==
  /\ gpc[g] = "sd_unlock"
  /\ sdMu' = IF sdMu = g THEN None ELSE sdMu
  /\ Go(g, IF g \in panicking THEN "panicked" ELSE IF g = RunG THEN "returned" ELSE "exit")
  /\ UNCHANGED <<kvvars, navars, input, term, dec, runErr, stdinClosed, stdoutClosed, doneClosed,
                 sdClosed, agMu, wg, sendErr, panicking, steps, bad, doer, decoded, handled,
                 pushes,
                 encBuf, out, wrErr, msg, flushErr, rq, handedSeq>>

Shutdown(g) ==
  \/ SdLock(g) \/ SdStdin(g) \/ SdWait(g) \/ SdDispatch(g) \/ SdStdout(g) \/ SdDone(g)
  \/ SdUnlock(g)

\* ---- pushes -------------------------------------------------------------
\* the state machine has a new state and calls ag.listener(st), which calls
\* ag.send; the messages are numbered in the order of the calls
Push(g) ==
  /\ gpc[g] = "idle"
  /\ \A h \in Pushers : h < g => gpc[h] # "idle"
  /\ pushes < MaxPush
  /\ pushes' = pushes + 1
  /\ msg' = [msg EXCEPT ![g] = pushes + 1]
  /\ sendErr' = [sendErr EXCEPT ![g] = "nil"]
  /\ flushErr' = [flushErr EXCEPT ![g] = FALSE]
  /\ Go(g, "send")
  /\ UNCHANGED <<kvvars, navars, input, term, dec, runErr, stdinClosed, stdoutClosed, doneClosed,
                 sdClosed, sdMu, agMu, wg, panicking, steps, bad, doer, decoded,
                 handled, encBuf, out, wrErr, rq, handedSeq>>

\* a send whose deferred calls run in the order they were written
SendDefersFifo == <<"send_unlock", "send_flush">>

\* Agent.send: `defer ag.mu.Unlock()` and then `defer ag.encWr.Flush()`;
\* deferred calls run last in, first out
SendDefers == <<"send_flush", "send_unlock">>

\* what follows a deferred call of send: the next one, or the return to listener
AfterDefer(step) == IF step = SendDefers[1] THEN SendDefers[2] ELSE "listener"

\* the chunks of message i that are in the sequence s
ChunksOf(i, s) == SelectSeq(s, LAMBDA c : c[1] = i)

\* Agent.send: ag.mu.Lock()
SendLock(g) ==
  /\ gpc[g] = "send"
  /\ agMu = None
  /\ agMu' = g
  /\ Go(g, "send_encode")
  /\ UNCHANGED <<kvvars, navars, input, term, dec, runErr, stdinClosed, stdoutClosed, doneClosed,
                 sdClosed, sdMu, wg, sendErr, panicking, steps, bad, doer, decoded,
                 handled, pushes, encBuf, out, wrErr, msg, flushErr, rq, handedSeq>>

\* Agent.send: ag.enc.Encode writes the message to ag.encWr chunk by chunk;
\* it may fail at any chunk, and it fails when ag.encWr has recorded a
\* write error; send's result is Encode's result
SendEncode(g) ==
  /\ gpc[g] = "send_encode"
  /\ LET n == Len(ChunksOf(msg[g], out \o encBuf)) IN
     \E e \in (IF wrErr THEN {} ELSE {"nil"}) \cup {"err"} :
       IF e = "err" THEN
         /\ sendErr' = [sendErr EXCEPT ![g] = "err"]
         /\ Go(g, SendDefers[1])
         /\ UNCHANGED encBuf
       ELSE
         /\ encBuf' = Append(encBuf, <<msg[g], n + 1>>)
         /\ Go(g, IF n + 1 = MsgLen THEN SendDefers[1] ELSE "send_encode")
         /\ UNCHANGED sendErr
  /\ UNCHANGED <<kvvars, navars, input, term, dec, runErr, stdinClosed, stdoutClosed, doneClosed,
                 sdClosed, sdMu, agMu, wg, panicking, steps, bad, doer, decoded,
                 handled, pushes, out, wrErr, msg, flushErr, rq, handedSeq>>

\* Agent.send: the deferred ag.encWr.Flush() writes what ag.encWr holds to
\* the output stream; a write to a closed stream fails, any write may fail,
\* ag.encWr keeps the error, and send drops Flush's result
SendFlush(g) ==
  /\ gpc[g] = "send_flush"
  /\ \E e \in (IF stdoutClosed > 0 \/ wrErr THEN {} ELSE {"nil"}) \cup {"err"} :
       IF e = "err" /\ encBuf # <<>> THEN
         /\ wrErr' = TRUE
         /\ flushErr' = [flushErr EXCEPT ![g] = TRUE]
         /\ UNCHANGED <<out, encBuf>>
       ELSE
         /\ out' = out \o encBuf
         /\ encBuf' = <<>>
         /\ UNCHANGED <<wrErr, flushErr>>
  /\ Go(g, AfterDefer("send_flush"))
  /\ UNCHANGED <<kvvars, navars, input, term, dec, runErr, stdinClosed, stdoutClosed, doneClosed,
                 sdClosed, sdMu, agMu, wg, sendErr, panicking, steps, bad, doer, decoded,
                 handled, pushes, msg, rq, handedSeq>>

\* Agent.send: the deferred ag.mu.Unlock()
SendUnlock(g) ==
  /\ gpc[g] = "send_unlock"
  /\ agMu' = IF agMu = g THEN None ELSE agMu
  /\ Go(g, AfterDefer("send_unlock"))
  /\ UNCHANGED <<kvvars, navars, input, term, dec, runErr, stdinClosed, stdoutClosed, doneClosed,
                 sdClosed, sdMu, wg, sendErr, panicking, steps, bad, doer, decoded,
                 handled, pushes, encBuf, out, wrErr, msg, flushErr, rq, handedSeq>>

Send(g) == SendLock(g) \/ SendEncode(g) \/ SendFlush(g) \/ SendUnlock(g)

\* Agent.listener after send: `if err != nil { ...; go ag.shutdown() }`,
\* and the return to the state machine
Listener(g) ==
  /\ gpc[g] = "listener"
  /\ IF sendErr[g] = "err" THEN
       \E s \in SdGs :
         /\ gpc[s] = "off"
         /\ \A t \in SdGs : t < s => gpc[t] # "off"
         /\ gpc' = [gpc EXCEPT ![g] = "idle", ![s] = "sd_lock"]
     ELSE Go(g, "idle")
  /\ UNCHANGED <<kvvars, navars, input, term, dec, runErr, stdinClosed, stdoutClosed, doneClosed,
                 sdClosed, sdMu, agMu, wg, sendErr, panicking, steps, bad, doer, decoded,
                 handled, pushes,
                 encBuf, out, wrErr, msg, flushErr, rq, handedSeq>>

\* ---- the codec registry and NewAgent --------------------------------------
\* a registry whose default is another codec
DefaultCodecCbor == "cbor"

\* `DefaultCodec = "json"`
DefaultCodec == "json"

NilHandle == "nil"                        \* the nil codec.Handle
NoError == "nil"                          \* the nil error
NoAgent == [made |-> FALSE]               \* no Agent allocated yet

\* codecHandles: the three handles, and `m[""] = m[DefaultCodec]`
codecHandles ==
  LET m == [n \in {"cbor", "json", "msgpack"} |->
              CASE n = "cbor" -> "CborHandle"
                [] n = "json" -> "JsonHandle"
                [] OTHER -> "MsgpackHandle"]
  IN [n \in DOMAIN m \cup {""} |-> IF n = "" THEN m[DefaultCodec] ELSE m[n]]

\* `codecHandles[name]`: a name that is not a key of the map gives nil
HandleOf(name) == IF name \in DOMAIN codecHandles THEN codecHandles[name] ELSE NilHandle

\* the bytes of the registry's names, which is what sort.Strings compares
Spelling(name) ==
  CASE name = "cbor" -> <<99, 98, 111, 114>>
    [] name = "json" -> <<106, 115, 111, 110>>
    [] name = "msgpack" -> <<109, 115, 103, 112, 97, 99, 107>>
    [] OTHER -> <<>>

\* a < b as Go compares strings: byte by byte, a proper prefix first
StrLess(a, b) ==
  LET x == Spelling(a)
      y == Spelling(b)
      same(n) == \A i \in 1..n : x[i] = y[i]
  IN \/ Len(x) < Len(y) /\ same(Len(x))
     \/ \E n \in 1..Len(x) : n <= Len(y) /\ same(n - 1) /\ x[n] < y[n]

\* CodecNames: the keys of codecHandles but "", in whatever order the map
\* yields them, and then sort.Strings
CodecNames ==
  LET keys == {k \in DOMAIN codecHandles : k # ""}
      n == Cardinality(keys)
  IN CHOOSE l \in [1..n -> keys] :
       /\ \A k \in keys : \E i \in 1..n : l[i] = k
       /\ \A i, j \in 1..n : i < j => StrLess(l[i], l[j])

\* strings.Join
RECURSIVE Join(_, _)
Join(l, sep) ==
  IF l = <<>> THEN ""
  ELSE IF Len(l) = 1 THEN l[1]
  ELSE l[1] \o sep \o Join(Tail(l), sep)

\* CodecNamesStr: `strings.Join(CodecNames[:i], ", ") + " or " + CodecNames[i]`
CodecNamesStr ==
  LET i == Len(CodecNames) - 1
  IN Join(SubSeq(CodecNames, 1, i), ", ") \o " or " \o CodecNames[i + 1]

\* the configurations NewAgent is called with
CodecInputs == {"", "json", "cbor", "msgpack", "xml", "JSON", "msgpack2", " json"}
Configs == [Codec : CodecInputs, Stdin : {"nil", "in"}, Stdout : {"nil", "out"},
            Stderr : {"nil", "err"}, BuildError : {"", "failed"}]

\* NewAgent: `ag := &Agent{...}` with `handle: codecHandles[cfg.Codec]`
NaNew ==
  /\ npc = "new"
  /\ nag' = [made |-> TRUE, handle |-> HandleOf(ncfg.Codec), stdin |-> ncfg.Stdin,
             stdout |-> ncfg.Stdout, stderr |-> ncfg.Stderr, wrapped |-> FALSE,
             status |-> FALSE, enc |-> NilHandle, dec |-> NilHandle]
  /\ npc' = "streams"
  /\ UNCHANGED <<kvvars, agvars, ncfg, nerr>>

\* NewAgent: a stream that is nil becomes the process's, and each is wrapped
NaStreams ==
  /\ npc = "streams"
  /\ nag' = [nag EXCEPT !.stdin = IF @ = "nil" THEN "os.Stdin" ELSE @,
                        !.stdout = IF @ = "nil" THEN "os.Stdout" ELSE @,
                        !.stderr = IF @ = "nil" THEN "os.Stderr" ELSE @,
                        !.wrapped = TRUE]
  /\ npc' = "store"
  /\ UNCHANGED <<kvvars, agvars, ncfg, nerr>>

\* NewAgent: the logger, the store, and the status reducer when
\* MARGO_BUILD_ERROR is set
NaStore ==
  /\ npc = "store"
  /\ nag' = [nag EXCEPT !.status = ncfg.BuildError # ""]
  /\ npc' = "codec"
  /\ UNCHANGED <<kvvars, agvars, ncfg, nerr>>

\* NewAgent: `if ag.handle == nil { err = ...; ag.handle = codecHandles[DefaultCodec] }`,
\* the encoder and the decoder on that handle, and `return ag, err`
NaCodec ==
  /\ npc = "codec"
  /\ LET invalid == nag.handle = NilHandle
         h == IF invalid THEN HandleOf(DefaultCodec) ELSE nag.handle
     IN /\ nerr' = IF invalid
                   THEN "Invalid codec '" \o ncfg.Codec \o "'. Expected " \o CodecNamesStr
                   ELSE nerr
        /\ nag' = [nag EXCEPT !.handle = h, !.enc = h, !.dec = h]
  /\ npc' = "done"
  /\ UNCHANGED <<kvvars, agvars, ncfg>>

\* no NewAgent call is under test
NewAgentIdle == npc = "none" /\ ncfg = [Codec |-> ""] /\ nag = NoAgent /\ nerr = NoError

InitCodec ==
  /\ InitKVState /\ kvl = <<>>
  /\ InitAgentIdle
  /\ npc = "new" /\ ncfg \in Configs /\ nag = NoAgent /\ nerr = NoError

NextCodec == NaNew \/ NaStreams \/ NaStore \/ NaCodec
SpecCodec == InitCodec /\ [][NextCodec]_vars

\* ---- specification of the Agent -----------------------------------------
InitAgent ==
  /\ InitKVState /\ kvl = <<>>
  /\ InitAgentState /\ NewAgentIdle
  /\ input \in 0..MaxInput
  /\ term \in {"eof", "err", "open"}

\* one task of the state machine pushes while the loop runs
LoopPushers == {2}

NextAgent ==
  \/ Start \/ Decode \/ WgAdd \/ SyncRq \/ WgDone
  \/ \E g \in {RunG} \cup SdGs : Shutdown(g)
  \/ \E g \in LoopPushers : (pushes < MaxLoopPush /\ Push(g)) \/ Send(g) \/ Listener(g)
SpecAgent == InitAgent /\ [][NextAgent]_vars

\* ---- specification of concurrent sends ------------------------------------
\* the input stream is quiet and stays open: the loop waits in Decode while
\* the tasks of the state machine push concurrently
InitSend ==
  /\ InitKVState /\ kvl = <<>>
  /\ InitAgentIdle /\ NewAgentIdle

NextSend ==
  \/ Start \/ Decode
  \/ \E g \in {RunG} \cup SdGs : Shutdown(g)
  \/ \E g \in Pushers : Push(g) \/ Send(g) \/ Listener(g)
SpecSend == InitSend /\ [][NextSend]_vars

\* a goroutine that can take a step takes one in the end: the Go scheduler
\* runs every runnable goroutine; whether the state machine pushes again is
\* up to what goes on outside, so Push is under no fairness
FairSend ==
  /\ WF_vars(Start \/ Decode)
  /\ \A g \in {RunG} \cup SdGs : WF_vars(Shutdown(g))
  /\ \A g \in Pushers : WF_vars(Send(g) \/ Listener(g))
SpecSendFair == InitSend /\ [][NextSend]_vars /\ FairSend

\* ---- specification of one KVMap under concurrent callers ----------------
\* what an initializer returns: nothing (nil) or a present value
InitResults == {Nil, 1}
Args(name) == CASE name = "Put" -> Vals
                [] name = "Ref" -> InitResults
                [] OTHER -> {Nil}
KeyArgs(name) == IF name \in {"Clear", "Values"} THEN {0} ELSE Keys

CallKV(p) ==
  \E name \in {"Put", "Get", "Del", "Clear", "Ref", "Values"} :
    \E k \in KeyArgs(name) : \E v \in Args(name) : Call(p, name, "A", k, v)

InitKV == InitKVState /\ kvl = <<>> /\ InitAgentIdle /\ NewAgentIdle
NextKV == \E p \in Procs : CallKV(p) \/ KVStep(p)
SpecKV == InitKV /\ [][NextKV]_vars

\* ---- specification of one KVMap with initializers that call into it ------
\* a step of an initializer's own call into the map
InitStep(p) == InitCalls(p) \/ InitCallStep(p) \/ InitCallUnref(p)

\* two goroutines call into the map
ReentProcs == {1, 2}

NextReent == \E p \in ReentProcs : CallKV(p) \/ KVStep(p) \/ InitStep(p)
SpecReent == InitKV /\ [][NextReent]_vars

\* ---- specification of a KVStores list over two KVMaps -------------------
\* calls on the list, and Put and Ref calls on its maps that fill them
CallStores(p) ==
  \/ \E name \in {"SPut", "SGet", "SDel"} : \E k \in Keys :
       \E v \in (IF name = "SPut" THEN Vals ELSE {Nil}) : Call(p, name, "kvl", k, v)
  \/ \E m \in Maps : \E k \in Keys :
       \/ \E v \in Vals : Call(p, "Put", m, k, v)
       \/ Call(p, "Ref", m, k, 1)

InitStores == InitKVState /\ kvl \in Lists /\ InitAgentIdle /\ NewAgentIdle
NextStores ==
  \E p \in StoreProcs :
    \/ CallStores(p) \/ SLoop(p) \/ SNext(p)
    \/ Put(p) \/ Get(p) \/ Unref(p) \/ Del(p) \/ Ref(p) \/ RefLock(p) \/ RefInit(p)
SpecStores == InitStores /\ [][NextStores]_vars

\* ---- specification of the nil stores ------------------------------------
\* every method of a nil *KVMap, and of a KVStores list with no store in it
CallNil(p) ==
  \/ \E name \in {"Put", "Get", "Del", "Clear", "Ref", "Values"} :
       \E k \in KeyArgs(name) : \E v \in Args(name) : Call(p, name, NilMap, k, v)
  \/ \E name \in {"SPut", "SGet", "SDel"} : \E k \in Keys :
       \E v \in (IF name = "SPut" THEN Vals ELSE {Nil}) : Call(p, name, "kvl", k, v)

InitNil == InitKVState /\ kvl \in NilLists /\ InitAgentIdle /\ NewAgentIdle
NextNil ==
  \E p \in NilProcs :
    \/ CallNil(p) \/ SLoop(p) \/ SNext(p)
    \/ Put(p) \/ Get(p) \/ Del(p) \/ Clear(p) \/ Ref(p) \/ Values(p)
SpecNil == InitNil /\ [][NextNil]_vars

\* ---- claims about one KVMap (SpecKV) ------------------------------------
\* every call made so far is Ref(scen.k, init) on the fresh map scen.m, with
\* one initializer whose result is scen.v
OnlyRefs == scen.s = "ref"

\* C1 as stated: Ref(k, init) called any number of times concurrently on a
\* fresh KVMap calls init at most once and every call returns the same value,
\* for every initializer, one returning nil included. (Slot 2 is taken only
\* while slot 1 is busy: the two calls on record overlapped.)
C1_InitOnceAnyInit ==
  OnlyRefs /\ op[1].name = "Ref" /\ op[2].name = "Ref" =>
    refInits <= 1 /\ Cardinality(refRets) <= 1

\* C1 amended: for an initializer whose result is present (non-nil), init is
\* called at most once and every call returns that one value; an initializer
\* that returns nil leaves the box unmaterialized and every call calls it.
C1_InitOncePresent ==
  OnlyRefs =>
    /\ scen.v # Nil => refInits <= 1 /\ refRets \subseteq {scen.v}
    /\ scen.v = Nil =>
         \A p \in Procs : pc[p] = "idle" /\ op[p].name = "Ref" => called[p]

\* two overlapping Ref calls with a present initializer result both returned
C1_Witness ==
  /\ OnlyRefs /\ scen.v # Nil /\ refInits = 1
  /\ pc[1] = "idle" /\ pc[2] = "idle"
  /\ op[1].name = "Ref" /\ op[2].name = "Ref"
  /\ ret[1] = scen.v /\ ret[2] = scen.v

\* p's call was Get(k) on a map, has returned, and no other call overlapped
\* it or was made since
GetAlone(p) ==
  pc[p] = "idle" /\ solo[p] /\ op[p].name = "Get" /\ op[p].m \in Maps

\* C2: after any sequence of Put, Del, Clear and Ref calls, Get(k) returns
\* the value of the most recent Put(k, v) when that is the most recent write
\* to k, and nil when k was never written or its most recent write was a
\* Del(k) or a Clear. (A Ref that stored its initializer's present result in
\* the box k holds is a write of k too, and Get returns that result.)
C2_GetReturnsLastWrite ==
  \A p \in Procs :
    GetAlone(p) =>
      LET w == lastWrite[op[p].m][op[p].k] IN
      /\ w.w \in {"put", "ref"} => ret[p] = w.v
      /\ w.w \in {"none", "del", "clear"} => ret[p] = Nil

\* Get(k) returned the value of a Put(k, 2) that replaced a lazy box: the
\* one box ever made is neither under k nor under the other key, which was
\* never written
C2_Witness ==
  \E p \in Procs : \E k \in Keys :
    /\ GetAlone(p) /\ op[p].m = "A" /\ op[p].k = k
    /\ lastWrite["A"][k] = [w |-> "put", v |-> 2] /\ ret[p] = 2
    /\ nbox = 1 /\ ~IsBox(vals["A"][k])
    /\ \A j \in Keys \ {k} : lastWrite["A"][j].w = "none" /\ vals["A"][j] = Missing

\* p is inside its initializer (Ref holds the box lock around it)
InInit(p) == pc[p] = "RefInit"

\* q holds m.mu and cannot go on before p's initializer returns: all that
\* is left of its Values loop is to unref the box p holds
WaitsForInit(q, p) ==
  /\ pc[q] = "ValIter" /\ cur[q].m = cur[p].m /\ mu[cur[q].m] = q
  /\ vrem[q] # {}
  /\ \A k \in vrem[q] : vals[cur[q].m][k] = Box(loc[p])

\* r is at the m.mu.Lock() of a Put, Get, Del or Ref on another key than p's
AtMapLock(r, p) ==
  /\ pc[r] \in {"Put", "Get", "Del", "Ref"}
  /\ cur[r].m = cur[p].m /\ cur[r].k # cur[p].k

\* C5: while an initializer runs, no operation holds the map-wide lock
\* waiting for it, so a Put, Get, Del or Ref on another key is never kept
\* waiting by the initializer
C5_OtherKeysNeverWait ==
  \A p, r \in Procs :
    InInit(p) /\ AtMapLock(r, p) => ~\E q \in Procs : WaitsForInit(q, p)

\* ---- claims about KVStores (SpecStores) ---------------------------------
\* what m.Get(k) returns in the current state
StoredValue(m, k) == unref(Lookup(m, k))

\* the positions of the list that hold a store with a value under k
Hits(k) == {i \in 1..Len(kvl) : kvl[i] \in Maps /\ StoredValue(kvl[i], k) # Nil}

\* the value of the first store in list order that has one under k
FirstValue(k) ==
  IF Hits(k) = {} THEN Nil
  ELSE StoredValue(kvl[CHOOSE i \in Hits(k) : \A j \in Hits(k) : i <= j], k)

\* p's call was a method of the KVStores list and has returned, with no
\* other call overlapping it or made since
ListCallDone(p, name) ==
  pc[p] = "idle" /\ solo[p] /\ op[p].m = "kvl" /\ op[p].name = name

\* C3: KVStores.Put(k, v) writes v under k in every non-nil store of the
\* list, Get(k) returns the value of the first store in list order that has
\* one (nil if none has), Del(k) removes k from every non-nil store; nil
\* entries are skipped.
C3_ListFansOut ==
  \A p \in StoreProcs :
    /\ ListCallDone(p, "SPut") =>
         \A i \in 1..Len(kvl) : kvl[i] \in Maps => vals[kvl[i]][op[p].k] = op[p].v
    /\ ListCallDone(p, "SGet") => ret[p] = FirstValue(op[p].k)
    /\ ListCallDone(p, "SDel") =>
         \A i \in 1..Len(kvl) : kvl[i] \in Maps => vals[kvl[i]][op[p].k] = Missing
    /\ pc[p] # "panic"

\* with KVStores = [A, B] holding different values under a key, Get
\* returned A's value
C3_Witness ==
  \E p \in StoreProcs :
    /\ ListCallDone(p, "SGet") /\ kvl = <<"A", "B">>
    /\ StoredValue("A", op[p].k) = 1 /\ StoredValue("B", op[p].k) = 2
    /\ ret[p] = 1

\* ---- claims about the nil stores (SpecNil) ------------------------------
\* p's call was a method of the nil KVMap and has returned
NilCallDone(p, name) == pc[p] = "idle" /\ op[p].m = NilMap /\ op[p].name = name

\* C4: every operation on a nil KVMap or a nil KVStores completes without
\* failure and leaves nothing stored: Get returns nil, Values returns
\* nothing, and Ref calls its initializer on every call and returns its
\* result, which is not cached.
C4_NilStoresInert ==
  /\ \A p \in Procs :
       /\ pc[p] # "panic"
       /\ NilCallDone(p, "Get") => ret[p] = Nil
       /\ NilCallDone(p, "Values") => vout[p] = EmptyOut
       /\ NilCallDone(p, "Ref") => called[p] /\ ret[p] = op[p].v
       /\ pc[p] = "idle" /\ op[p].m = "kvl" /\ op[p].name = "SGet" => ret[p] = Nil
  /\ \A m \in Maps : ~tbl[m] /\ \A k \in Keys : vals[m][k] = Missing
  /\ nbox = 0

\* two Ref calls on the nil KVMap each called their initializer and returned
\* its result: a present value for one, nil for the other
C4_Witness ==
  \E p, q \in Procs :
    /\ NilCallDone(p, "Ref") /\ called[p] /\ ret[p] = 1
    /\ NilCallDone(q, "Ref") /\ called[q] /\ ret[q] = Nil /\ op[q].k = op[p].k

\* ---- claims about the Agent (SpecAgent) ---------------------------------
IsPrefix(s, t) == Len(s) <= Len(t) /\ \A i \in 1..Len(s) : s[i] = t[i]

\* g's call of shutdown is over: it returned (to Run, which returned, or at
\* the end of its goroutine) or its panic left it
ShutdownOver(g) == gpc[g] \in {"returned", "exit", "panicked"}

AllClosed == stdinClosed = 1 /\ stdoutClosed = 1 /\ doneClosed = 1

\* C6: shutdown closes the input stream, waits for the pending-work counter,
\* dispatches Shutdown, closes the output stream and closes Done, in this
\* order, and whatever the number of concurrent or repeated shutdown() calls
\* each step is performed exactly once.
C6_StepsInOrderOnce ==
  /\ IsPrefix(steps, Order)
  /\ stdinClosed <= 1 /\ stdoutClosed <= 1 /\ doneClosed <= 1
  /\ \A g \in Gs : ShutdownOver(g) => steps = Order /\ AllClosed

\* Run's shutdown and the shutdown of a `go ag.shutdown()` are both over
C6_Witness ==
  /\ gpc[RunG] = "returned"
  /\ \E g \in SdGs : gpc[g] = "exit"
  /\ steps = Order

\* C7: a step of the shutdown sequence that fails or panics never keeps the
\* later steps from running, and the shutdown lock is released afterwards.
C7_LaterStepsStillRun ==
  \A g \in Gs :
    ShutdownOver(g) =>
      /\ sdMu # g
      /\ \A i \in 1..Len(steps) :
           steps[i] \in bad =>
             \A j \in (i + 1)..Len(Order) : \E n \in 1..Len(steps) : steps[n] = Order[j]

\* closing the input stream panicked, and the goroutine that ran the steps
\* ended in that panic with every step run and the lock free
C7_Witness ==
  /\ doer # None /\ gpc[doer] = "panicked"
  /\ "stdin" \in bad
  /\ steps = Order /\ sdMu = None

\* C8: when the input stream reaches end-of-stream, Run returns no error
\* with the five steps run once each in order, the output stream closed and
\* Done closed.
C8_EofEndsCleanly ==
  gpc[RunG] = "returned" /\ dec = "eof" =>
    runErr = "nil" /\ wg = 0 /\ steps = Order /\ stdoutClosed = 1 /\ doneClosed = 1

\* Run handled a request, met end-of-stream and returned after running the
\* shutdown steps itself
C8_Witness ==
  /\ gpc[RunG] = "returned" /\ dec = "eof" /\ doer = RunG
  /\ handled >= 1 /\ runErr = "nil"

\* the decode loop is over
LoopOver == gpc[RunG] \notin {"start", "decode", "add", "syncRq", "wgdone"}

\* C9: a Decode that fails with anything but end-of-stream ends the loop
\* with that request not handed to the state machine, and Run returns an
\* error after the whole shutdown sequence has run.
C9_DecodeErrorEndsRun ==
  /\ LoopOver /\ dec = "err" => handled = decoded
  /\ gpc[RunG] = "returned" /\ dec = "err" =>
       runErr = "err" /\ steps = Order /\ AllClosed

\* the stream itself failed (nothing had closed it) after a request was handled
C9_Witness ==
  /\ gpc[RunG] = "returned" /\ dec = "err" /\ term = "err" /\ doer = RunG
  /\ decoded >= 1 /\ input = 0 /\ runErr = "err"

\* C10: when Run returns (or a panic leaves it), in any interleaving, both
\* streams have been closed and Done is closed.
C10_RunLeavesAllClosed ==
  gpc[RunG] \in {"returned", "panicked"} =>
    stdinClosed >= 1 /\ stdoutClosed >= 1 /\ doneClosed >= 1

\* Run returned after a shutdown that a failed send had started on another
\* goroutine ran the steps
C10_Witness ==
  /\ gpc[RunG] = "returned" /\ doer \in SdGs
  /\ AllClosed

\* ---- C11 ----------------------------------------------------------------
\* no chunk of another message lies between two chunks of one message
NonInterleaved(s) ==
  \A i, j, l \in 1..Len(s) : i < j /\ j < l /\ s[i][1] = s[l][1] => s[j][1] = s[i][1]

\* the whole message i, chunk after chunk
Whole(i) == [n \in 1..MsgLen |-> <<i, n>>]

\* g's send has returned, and neither Encode nor Flush failed
SentOk(g) ==
  /\ msg[g] # 0
  /\ gpc[g] \in {"listener", "idle"}
  /\ sendErr[g] = "nil" /\ ~flushErr[g]

\* C11: a send encodes and flushes while it holds ag.mu, the one lock all
\* sends take: the chunks of two messages never interleave on the output
\* stream (nor in the buffer before it), a send is past its flush when it
\* releases the lock, and the message of a send that returned without a
\* failure is on the output stream whole
C11_SendsNeverInterleave ==
  /\ NonInterleaved(out \o encBuf)
  /\ \A g \in Pushers : gpc[g] \in {"send_encode", "send_flush", "send_unlock"} => agMu = g
  /\ \A g \in Pushers : gpc[g] = "send_unlock" => (encBuf = <<>> \/ wrErr)
  /\ \A g \in Pushers : SentOk(g) => ChunksOf(msg[g], out) = Whole(msg[g])

\* two sends were in flight together and both messages are on the stream
C11_Witness ==
  /\ gpc[2] = "listener" /\ gpc[3] = "listener"
  /\ SentOk(2) /\ SentOk(3)
  /\ Len(out) = 2 * MsgLen
  /\ C11_SendsNeverInterleave

\* ---- C12 ----------------------------------------------------------------
\* g's send is over and it failed: Encode failed, or the write of Flush did
SendFailed(g) ==
  /\ gpc[g] \in {"listener", "idle"}
  /\ sendErr[g] = "err" \/ flushErr[g]

\* some goroutine has called ag.shutdown()
ShutdownStarted ==
  \/ \E s \in SdGs : gpc[s] # "off"
  \/ gpc[RunG] \in {"sd_lock", "sd_stdin", "sd_wait", "sd_dispatch", "sd_stdout",
                    "sd_done", "sd_unlock", "returned", "panicked"}

\* C12: whenever a send fails, by an encode failure or by a write/flush
\* failure, shutdown is started in the end (stated for the sends after which
\* the state machine is still free to push, so that a behaviour against it
\* does not rest on MaxPush)
C12_FailedSendStartsShutdown ==
  \A g \in Pushers : (SendFailed(g) /\ pushes < MaxPush) ~> ShutdownStarted

\* ---- C13 ----------------------------------------------------------------
\* C13: the requests are handed to the state machine in the order they were
\* decoded, none left out, and the loop never reads ahead: a request that
\* is decoded and not handed off yet is the one handleReq is about to hand
\* off, and no other request is decoded before that
C13_HandedInDecodeOrder ==
  /\ handedSeq = [i \in 1..Len(handedSeq) |-> i]
  /\ decoded \in {Len(handedSeq), Len(handedSeq) + 1}
  /\ decoded = Len(handedSeq) + 1 => gpc[RunG] \in {"add", "syncRq"} /\ rq = decoded
  /\ gpc[RunG] = "decode" => decoded = Len(handedSeq)

\* two requests that arrived back-to-back have been handed off
C13_Witness ==
  /\ handedSeq = <<1, 2>>
  /\ decoded = 2

\* ---- C14 ----------------------------------------------------------------
\* the handle NewAgent has to use for a valid codec name
ExpectedHandle(name) ==
  CASE name \in {"", "json"} -> "JsonHandle"
    [] name = "cbor" -> "CborHandle"
    [] name = "msgpack" -> "MsgpackHandle"

\* C14: NewAgent always returns an agent with a codec handle, which its
\* encoder and decoder use: for the names "", "json", "cbor" and "msgpack"
\* it returns no error and the handle of that codec (json for ""), for any
\* other name the json handle and an error that lists the valid names as
\* "cbor, json or msgpack"
C14_NewAgentAlwaysUsable ==
  npc = "done" =>
    /\ nag.made /\ nag.handle # NilHandle
    /\ nag.enc = nag.handle /\ nag.dec = nag.handle
    /\ IF ncfg.Codec \in {"", "json", "cbor", "msgpack"}
       THEN nerr = NoError /\ nag.handle = ExpectedHandle(ncfg.Codec)
       ELSE /\ nag.handle = "JsonHandle"
            /\ nerr = "Invalid codec '" \o ncfg.Codec \o "'. Expected cbor, json or msgpack"

\* NewAgent has returned for a name the registry does not have
C14_Witness ==
  /\ npc = "done"
  /\ ncfg.Codec = "xml"
  /\ nerr = "Invalid codec 'xml'. Expected cbor, json or msgpack"
  /\ nag.handle = "JsonHandle"

\* ---- C15 ----------------------------------------------------------------
\* shutdown has dispatched Shutdown{} to the state machine (its third step)
Dispatched == \E i \in 1..Len(steps) : steps[i] = "dispatch"

\* the loop is inside handleReq, between wg.Add(1) and wg.Done()
HandlerInFlight == gpc[RunG] \in {"syncRq", "wgdone"}

\* C15: from the moment shutdown dispatches Shutdown{} on, no request
\* handler is in flight: the counter of pending work is zero and the loop
\* is not inside handleReq, however the loop and a shutdown started by
\* another goroutine interleave
C15_NoHandlerAfterDispatch ==
  Dispatched => wg = 0 /\ ~HandlerInFlight

\* ---- C16 ----------------------------------------------------------------
\* Get's unref of a box returns in this step
GetReturns(p) == pc[p] = "unref" /\ pc'[p] # "unref"

\* C16: a Get of a key that holds a box returns only when it can have the
\* box lock: no Ref is then inside the initializer of that box, and what
\* Get returns is the box's value of that moment, nil from before the
\* initializer or the value the initializer stored
C16_GetWaitsForInit ==
  [][\A p \in Procs :
       GetReturns(p) =>
         /\ boxLock[loc[p]] = None
         /\ \A q \in Procs : ~(pc[q] = "RefInit" /\ loc[q] = loc[p])
         /\ ret'[p] = boxVal[loc[p]]]_vars

\* a Get that overlapped a Ref of its key has returned the value that the
\* initializer of that Ref stored in the box
C16_Witness ==
  \E p, q \in Procs :
    /\ pc[p] = "idle" /\ op[p].name = "Get" /\ ~solo[p]
    /\ op[q].name = "Ref" /\ called[q] /\ op[q].k = op[p].k
    /\ loc[p] = loc[q] /\ loc[p] # 0
    /\ ret[p] = op[q].v /\ ret[p] # Nil

\* ---- C17 ----------------------------------------------------------------
\* p's call of method name on a map has returned and no call overlapped it
DoneAlone(p, name) ==
  pc[p] = "idle" /\ solo[p] /\ op[p].name = name /\ op[p].m \in Maps

\* the key of p's call was last written by a Put, whose value it gives
PutValue(p) == lastWrite[op[p].m][op[p].k]

\* Ref's m.ref(k) runs in this step
RefFetches(p) == pc[p] = "Ref" /\ pc'[p] = "RefLock"

\* C17: while the last write of k is a Put(k, v), a Ref(k, init) returns v
\* without calling init and leaves k holding a box whose value is v, and a
\* Get(k) returns v whether k holds v or the box; Ref's m.ref(k) wraps a
\* plain value in a new box, which it stores under k, and takes the box k
\* holds when there is one, allocating nothing
C17_RefWrapsPutValue ==
  /\ [](\A p \in Procs :
          /\ DoneAlone(p, "Ref") /\ PutValue(p).w = "put" =>
               /\ ret[p] = PutValue(p).v /\ ~called[p]
               /\ vals[op[p].m][op[p].k] = Box(loc[p])
               /\ boxVal[loc[p]] = PutValue(p).v
          /\ DoneAlone(p, "Get") /\ PutValue(p).w = "put" => ret[p] = PutValue(p).v)
  /\ [][\A p \in Procs :
          RefFetches(p) =>
            LET m == cur[p].m
                k == cur[p].k
            IN IF IsBox(Lookup(m, k))
               THEN loc'[p] = BoxId(Lookup(m, k)) /\ nbox' = nbox /\ vals' = vals
               ELSE /\ nbox' = nbox + 1 /\ loc'[p] = nbox'
                    /\ boxVal'[loc'[p]] = Lookup(m, k)
                    /\ vals'[m][k] = Box(loc'[p])]_vars

\* after Put(k, 2) two calls of Ref(k, init) have returned 2 from the one
\* box that wraps it, and neither called init
C17_Witness ==
  \E p, q \in Procs :
    /\ p # q /\ nops = 3 /\ nbox = 1
    /\ \A r \in {p, q} :
         /\ pc[r] = "idle" /\ op[r].name = "Ref" /\ op[r].m = "A" /\ op[r].k = 1
         /\ op[r].v = 1 /\ ret[r] = 2 /\ ~called[r] /\ loc[r] = 1
    /\ lastWrite["A"][1] = [w |-> "put", v |-> 2]
    /\ vals["A"][1] = Box(1)

\* ---- C18 ----------------------------------------------------------------
\* p's call of Values on a map has returned: vout[p] is the copy it returned
ValuesDone(p) == pc[p] = "idle" /\ op[p].name = "Values" /\ op[p].m \in Maps

\* C18: the copy Values returns holds no box and no nil; when no call
\* overlapped it, it maps exactly the keys whose unwrapped value is present
\* to that value, so a key whose box is not materialized is left out; and
\* the steps that other calls take after Values returned leave the copy as
\* it was returned (the record of the copy is kept until the next call is made)
C18_ValuesIsUnwrappedCopy ==
  /\ [](\A p \in Procs :
          ValuesDone(p) =>
            /\ \A k \in Keys : vout[p][k] = Missing \/ vout[p][k] \in (Vals \cup InitResults) \ {Nil}
            /\ solo[p] =>
                 \A k \in Keys :
                   vout[p][k] = IF StoredValue(op[p].m, k) # Nil
                                THEN StoredValue(op[p].m, k) ELSE Missing)
  /\ [][\A p \in Procs :
          ValuesDone(p) /\ nops' = nops => vout'[p] = vout[p]]_vars

\* Values returned a copy with the value 1 of the box key 1 held, and a
\* Put(1, 2) that ran afterwards changed the store and not the copy
C18_Witness ==
  \E p \in Procs :
    /\ ValuesDone(p) /\ nbox = 1 /\ nops = 3
    /\ vout[p][1] = 1 /\ vout[p][2] = Missing
    /\ StoredValue("A", 1) = 2

\* ---- C19 ----------------------------------------------------------------
\* p's call has not returned
InFlight(p) == pc[p] \notin {"idle", "panic"}

\* some call that is in flight can take a step
CanStep == ENABLED (\E p \in Procs : KVStep(p) \/ InitStep(p))

\* C19 as stated: no interleaving of calls on one KVMap reaches a state
\* where calls are in flight and none of them can go on, whether or not an
\* initializer calls into the map
C19_NoDeadlock == (\E p \in Procs : InFlight(p)) => CanStep

\* C19: as long as no initializer has called into the map, no interleaving
\* of Put, Get, Del, Clear, Values and Ref reaches a state where calls are
\* in flight and none of them can go on (each call takes a bounded number
\* of steps, so every call returns)
C19_NoDeadlockWithoutReentry ==
  (~reent /\ \E p \in Procs : InFlight(p)) => CanStep

\* Values holds m.mu and waits for the box of a Ref that is inside its
\* initializer, and no initializer has called into the map: the
\* initializer can return
C19_Witness ==
  /\ ~reent
  /\ \E p, q \in Procs :
       /\ pc[p] = "RefInit"
       /\ pc[q] = "ValIter" /\ mu["A"] = q
       /\ vrem[q] # {} /\ \A k \in vrem[q] : ~CanUnref(vals["A"][k])
  /\ CanStep

\* ---- C20 ----------------------------------------------------------------
\* p's Ref on a map has returned a present value; its record is kept until
\* the next call is made, so no call has started since
RefGave(p) ==
  pc[p] = "idle" /\ op[p].name = "Ref" /\ op[p].m \in Maps /\ ret[p] # Nil

\* p's Ref on a map returns in this step
RefReturns(p) ==
  pc[p] \in {"RefLock", "RefInit"} /\ pc'[p] = "idle" /\ op[p].m \in Maps

\* C20 as stated: the present value a Ref(k, init) returns is the value
\* stored under k when Ref returns (what a Get(k) or a Ref(k, ...) that
\* starts then gives), also when a Put(k, v), a Del(k) or a Clear ran while
\* the Ref call did
C20_RefValueIsStored ==
  [][\A p \in Procs :
       RefReturns(p) /\ ret'[p] # Nil =>
         (StoredValue(op[p].m, op[p].k))' = ret'[p]]_vars

\* C20: the present value a Ref(k, init) returned is the value stored under
\* k (what a Get(k) or a Ref(k, ...) that starts now gives), when no
\* Put(k, v), Del(k) or Clear has changed k since the Ref call was made
C20_RefValueIsStoredUnlessWritten ==
  \A p \in Procs :
    RefGave(p) /\ ~wrote[p] => StoredValue(op[p].m, op[p].k) = ret[p]

\* a Ref that overlapped other calls, none of them a write of its key, ran
\* its initializer and returned the value that is stored under its key
C20_Witness ==
  \E p \in Procs :
    /\ RefGave(p) /\ ~wrote[p] /\ ~solo[p] /\ called[p]
    /\ StoredValue(op[p].m, op[p].k) = ret[p]
    /\ \E q \in Procs \ {p} : op[q].name \in {"Get", "Values"} /\ pc[q] = "idle"

====
